---- MODULE Spec2Model ----
(***************************************************************************)
(* Model of the Rapier/Phaser connector (createRapierPhysics).             *)
(*                                                                         *)
(* The adapter owns one physics world, keeps the list `bodies` of          *)
(* associations {rigidBody, collider, gameObject, phaserTransformations}   *)
(* and, once per scene frame, steps the world and copies transforms.       *)
(* The physics engine and the scene are external: the engine's step is a   *)
(* nondeterministic displacement of the moving bodies, the scene is the    *)
(* game objects' fields.  Every handler is one action; `log` holds the     *)
(* calls the last handler made on its collaborators, in order.             *)
(*                                                                         *)
(* Calls into a world that free() has released are outside the model       *)
(* (AddRigidBody and a finding Destroy require worldFreed = 0).            *)
(*                                                                         *)
(* Spec is the whole adapter.  SpecList, SpecSync and SpecShapes are the   *)
(* same actions with the inputs narrowed to what one group of properties   *)
(* is about; SpecSync explores the runs of at most MaxCalls handler calls. *)
(* SpecDebug, SpecQueue and SpecLife do the same for the debug surface,    *)
(* the event queue and teardown.                                           *)
(***************************************************************************)
EXTENDS Integers, Sequences, FiniteSets, TLC

VARIABLES
    bodies,        \* Seq of associations, the closure's `bodies` array
    rigidBodies,   \* the world's rigid bodies: handle -> body state
    colliders,     \* the world's colliders: handle -> collider state
    nextHandle,    \* next fresh handle of the world
    gameObjects,   \* the scene's display objects: name -> fields
    debugEnabled,  \* the closure's `debugEnabled`
    debugGraphics, \* colliders whose outline is on the debug surface
    eventQueue,    \* the closure's `eventQueue` (0 = undefined)
    queuesCreated, \* number of EventQueue objects constructed
    queueFrees,    \* queue id -> number of free() calls on it
    subscribed,    \* update is a listener of the scene's 'update'
    worldFreed,    \* number of world.free() calls
    ret,           \* value returned by the last addRigidBody
    threw,         \* the last handler ended with an exception
    log,           \* calls made by the last handler, in order
    calls          \* handler invocations so far, counted up to MaxCalls

vars == <<bodies, rigidBodies, colliders, nextHandle, gameObjects, debugEnabled,
          debugGraphics, eventQueue, queuesCreated, queueFrees, subscribed,
          worldFreed, ret, threw, log, calls>>

----------------------------------------------------------------------------
(* Bounds *)

MaxBodies == 3
MaxCoord == 1
MaxQueues == 2
MaxFree == 2
MaxCalls == 4

----------------------------------------------------------------------------
(* The scene: display objects and their constant geometry *)

GameObjectNames == {"g1", "g2"}

\* displayWidth, displayHeight and twice originX of each display object
displayWidth(g) == 4
displayHeight(g) == IF g = "g1" THEN 2 ELSE 4
originX2(g) == IF g = "g1" THEN 1 ELSE 0

Poses == {<<0, 0, 0>>, <<1, 1, 1>>}

RigidBodyTypes ==
    {"Dynamic", "Fixed", "KinematicPositionBased", "KinematicVelocityBased"}

\* rapierOptions.rigidBodyType: a kind, omitted, or a value outside the enum
RigidBodyTypeInputs == RigidBodyTypes \cup {"undefined", "unrecognized"}

ImplementedShapes ==
    {"Ball", "Capsule", "Cuboid", "Triangle", "RoundCuboid", "RoundTriangle"}
UnimplementedShapes ==
    {"TriMesh", "HalfSpace", "Segment", "ConvexPolygon", "RoundConvexPolygon"}
SilentShapes == {"Polyline", "HeightField"}
ShapeTypes == ImplementedShapes \cup UnimplementedShapes \cup SilentShapes

\* rapierOptions.collider: omitted, a pre-built descriptor, or a ShapeType
ColliderInputs == {"undefined", "desc"} \cup ShapeTypes

Ev(name, h, g) == [ev |-> name, h |-> h, g |-> g]

NoRet == [rigidBody |-> 0, collider |-> 0, gameObject |-> ""]

----------------------------------------------------------------------------
(* addRidgiBody: descriptor selection and creation in the world *)

Shape(kind, a, b, r) == [kind |-> kind, a |-> a, b |-> b, r |-> r]

\* The corner radius passed to roundCuboid and roundTriangle
RoundRadius == 5

\* A pre-built RAPIER.ColliderDesc handed in by the caller
CustomDesc == Shape("custom", 1, 1, 0)

\* A ShapeType number standing where a ColliderDesc is expected
RawNumber == Shape("number", 0, 0, 0)

CuboidDesc(g) == Shape("cuboid", displayWidth(g) \div 2, displayHeight(g) \div 2, 0)

\* _colliderDesc at the end of the shape selection
ColliderDescOf(g, colliderDesc) ==
    CASE colliderDesc = "undefined" -> CuboidDesc(g)
      [] colliderDesc = "desc" -> CustomDesc
      [] colliderDesc = "Ball" -> Shape("ball", displayWidth(g) \div 2, 0, 0)
      [] colliderDesc = "Capsule" ->
             Shape("capsule", displayWidth(g) \div 4, displayWidth(g) \div 2, 0)
      [] colliderDesc = "Cuboid" -> CuboidDesc(g)
      [] colliderDesc = "Triangle" ->
             Shape("triangle", displayWidth(g) \div 2, displayHeight(g) \div 2, 0)
      [] colliderDesc = "RoundCuboid" ->
             Shape("roundCuboid", displayWidth(g) \div 2, displayHeight(g) \div 2,
                   RoundRadius)
      [] colliderDesc = "RoundTriangle" ->
             Shape("roundTriangle", displayWidth(g) \div 2, displayHeight(g) \div 2,
                   RoundRadius)
      [] OTHER -> RawNumber

\* console.error calls of the shape selection
ShapeDiagnostics(colliderDesc) ==
    IF colliderDesc \in UnimplementedShapes
    THEN <<Ev("console.error:shape not implemented", 0, "")>>
    ELSE <<>>

\* The kind of the RigidBodyDesc the switch selects
BodyKindOf(rigidBodyType) ==
    IF rigidBodyType \in RigidBodyTypes THEN rigidBodyType ELSE "Dynamic"

\* A faulty variant: the descriptor's rotation is never set
NewRigidBodyUnrotated(g, rigidBodyType) ==
    [bodyType |-> BodyKindOf(rigidBodyType),
     x |-> gameObjects[g].x,
     y |-> gameObjects[g].y,
     rotation |-> 0,
     nextX |-> gameObjects[g].x,
     nextY |-> gameObjects[g].y,
     nextRotation |-> 0,
     userData |-> g]

\* The body world.createRigidBody makes from the descriptor
NewRigidBody(g, rigidBodyType) ==
    [bodyType |-> BodyKindOf(rigidBodyType),
     x |-> gameObjects[g].x,
     y |-> gameObjects[g].y,
     rotation |-> gameObjects[g].rotation,
     nextX |-> gameObjects[g].x,
     nextY |-> gameObjects[g].y,
     nextRotation |-> gameObjects[g].rotation,
     userData |-> g]

\* world.createCollider(_colliderDesc, rigidBody): a ColliderDesc gives a
\* collider; a bare number is not one, and what the engine does with it is
\* not the adapter's to decide: it raises, or yields a collider with no shape.
CreateColliderOutcomes(desc) ==
    IF desc.kind = "number" THEN {"throws", "unusable"} ELSE {"created"}

NewCollider(desc, h, rb) ==
    [shape |-> IF desc.kind = "number" THEN Shape("unusable", 0, 0, 0) ELSE desc,
     parent |-> h,
     rotation |-> rb.rotation]

\* The association addRidgiBody returns
NewAssociation(h, g, phaserTransformations) ==
    [rigidBody |-> h, collider |-> h, gameObject |-> g,
     phaserTransformations |-> (phaserTransformations = TRUE)]

\* bodies.unshift(_body)
Unshift(list, b) == <<b>> \o list

\* The record addRigidBody returns to the caller
Returned(b) ==
    [rigidBody |-> b.rigidBody, collider |-> b.collider, gameObject |-> b.gameObject]

Put(f, k, v) == [x \in (DOMAIN f) \cup {k} |-> IF x = k THEN v ELSE f[x]]
Drop(f, ks) == [x \in (DOMAIN f) \ ks |-> f[x]]

AddRigidBody(body, rigidBodyType, collider, phaserTransformations) ==
    /\ worldFreed = 0
    /\ nextHandle <= MaxBodies
    /\ LET h == nextHandle
           desc == ColliderDescOf(body, collider)
           rb == NewRigidBody(body, rigidBodyType)
           b == NewAssociation(h, body, phaserTransformations)
           called == <<Ev("call:addRigidBody", h, body),
                       Ev("arg:rigidBodyType", 0, rigidBodyType),
                       Ev("arg:collider", 0, collider)>>
                       \o ShapeDiagnostics(collider)
                       \o <<Ev("createRigidBody", h, body)>>
       IN  \E outcome \in CreateColliderOutcomes(desc) :
             /\ rigidBodies' = Put(rigidBodies, h, rb)
             /\ nextHandle' = h + 1
             /\ IF outcome = "throws"
                THEN /\ threw' = TRUE
                     /\ ret' = NoRet
                     /\ log' = called
                     /\ UNCHANGED <<colliders, bodies>>
                ELSE /\ threw' = FALSE
                     /\ colliders' = Put(colliders, h, NewCollider(desc, h, rb))
                     /\ bodies' = Unshift(bodies, b)
                     /\ ret' = Returned(b)
                     /\ log' = called \o <<Ev("createCollider", h, body),
                                           Ev("unshift", h, body)>>
    /\ UNCHANGED <<gameObjects, debugEnabled, debugGraphics, eventQueue,
                   queuesCreated, queueFrees, subscribed, worldFreed>>

----------------------------------------------------------------------------
(* update: the per-frame callback *)

Min(a, b) == IF a < b THEN a ELSE b

\* world.step() on one body: a Fixed body stays; a KinematicPositionBased
\* body goes to its next kinematic position; a Dynamic or
\* KinematicVelocityBased body is displaced by d (gravity, velocity, contacts)
StepBody(rb, d) ==
    CASE rb.bodyType = "Fixed" -> rb
      [] rb.bodyType = "KinematicPositionBased" ->
             [rb EXCEPT !.x = rb.nextX, !.y = rb.nextY, !.rotation = rb.nextRotation]
      [] OTHER ->
             [rb EXCEPT !.y = Min(rb.y + d, MaxCoord),
                        !.rotation = (rb.rotation + d) % 2]

\* world.step(): every body of the world moves; colliders follow their body
StepWorld(rbs, d) == [h \in DOMAIN rbs |-> StepBody(rbs[h], d[h])]
StepColliders(cols, rbs) ==
    [c \in DOMAIN cols |-> [cols[c] EXCEPT !.rotation = rbs[cols[c].parent].rotation]]

\* A faulty variant: the Fixed test compares against a kind no body has
isFixedNever(rb) == rb.bodyType = "fixed"

\* rigidBody.isFixed()
isFixed(rb) == rb.bodyType = "Fixed"

\* rigidBody.isKinematic() && bodyType() === KinematicPositionBased
isKinematicPositionBased(rb) ==
    /\ rb.bodyType \in {"KinematicPositionBased", "KinematicVelocityBased"}
    /\ rb.bodyType = "KinematicPositionBased"

\* gameObject.x - gameObject.displayWidth * (gameObject.originX - 0.5)
MirrorX(g, go) == go.x - (displayWidth(g) * (originX2(g) - 1)) \div 2

\* A faulty variant: the target ignores the display object's horizontal origin
MirrorToBodyNoOrigin(rb, g, go) ==
    [rb EXCEPT !.nextX = go.x, !.nextY = go.y, !.nextRotation = go.rotation]

\* setNextKinematicTranslation, setNextKinematicRotation from the display object
MirrorToBody(rb, g, go) ==
    [rb EXCEPT !.nextX = MirrorX(g, go), !.nextY = go.y, !.nextRotation = go.rotation]

\* collider.setRotation(gameObject.rotation)
MirrorToCollider(col, go) == [col EXCEPT !.rotation = go.rotation]

\* A faulty variant: the copy leaves the rotation out
CopyToDisplayNoRotation(go, rb) == [go EXCEPT !.x = rb.x, !.y = rb.y]

\* gameObject.x/y/rotation = rigidBody.translation()/rotation()
CopyToDisplay(go, rb) == [go EXCEPT !.x = rb.x, !.y = rb.y, !.rotation = rb.rotation]

\* A faulty variant: mirroring asked of a body that is not KinematicPositionBased
\* falls back to the engine-driven copy instead of only reporting it
SyncBodyFallback(st, b) ==
    LET h == b.rigidBody
        g == b.gameObject
        rb == st.rb[h]
    IN  IF isFixed(rb) THEN st
        ELSE IF b.phaserTransformations /\ isKinematicPositionBased(rb)
        THEN [st EXCEPT !.rb[h] = MirrorToBody(rb, g, st.go[g]),
                        !.col[b.collider] = MirrorToCollider(@, st.go[g]),
                        !.log = Append(@, Ev("mirror", h, g))]
        ELSE [st EXCEPT !.go[g] = CopyToDisplay(@, rb),
                        !.log = Append(@, Ev("copyToDisplay", h, g))]

\* The body of the forEach callback, on st = [go, rb, col, log]
SyncBody(st, b) ==
    LET h == b.rigidBody
        g == b.gameObject
        rb == st.rb[h]
    IN  IF isFixed(rb) THEN st
        ELSE IF b.phaserTransformations
        THEN IF isKinematicPositionBased(rb)
             THEN [st EXCEPT !.rb[h] = MirrorToBody(rb, g, st.go[g]),
                             !.col[b.collider] = MirrorToCollider(@, st.go[g]),
                             !.log = Append(@, Ev("mirror", h, g))]
             ELSE [st EXCEPT !.log = Append(@, Ev("console.error:transformations", h, g))]
        ELSE [st EXCEPT !.go[g] = CopyToDisplay(@, rb),
                        !.log = Append(@, Ev("copyToDisplay", h, g))]

\* bodies.forEach(...)
RECURSIVE SyncAll(_, _)
SyncAll(st, list) ==
    IF list = <<>> THEN st ELSE SyncAll(SyncBody(st, Head(list)), Tail(list))

\* A faulty variant: the world is stepped without the queue whatever q is
StepCallsNoQueue(q) == <<Ev("step", 0, "")>>

\* The first branch of update: step with the queue and drain it, or step alone
StepCalls(q) ==
    IF q # 0
    THEN <<Ev("step:eventQueue", q, ""), Ev("drainCollisionEvents", q, "")>>
    ELSE <<Ev("step", 0, "")>>

\* The debug pass: clear the surface and draw the world's collider outlines
\* A faulty variant: the outlines are drawn whatever the flag
DebugDrawAlways(enabled, surface, cols) == DOMAIN cols

DebugDraw(enabled, surface, cols) == IF enabled THEN DOMAIN cols ELSE surface

Deltas == {0, 1}

Update(d) ==
    /\ subscribed
    /\ LET stepped == StepWorld(rigidBodies, d)
           st == SyncAll([go |-> gameObjects,
                          rb |-> stepped,
                          col |-> StepColliders(colliders, stepped),
                          log |-> <<Ev("call:update", 0, "")>> \o StepCalls(eventQueue)],
                         bodies)
       IN  /\ rigidBodies' = st.rb
           /\ colliders' = st.col
           /\ gameObjects' = st.go
           /\ log' = st.log
           /\ debugGraphics' = DebugDraw(debugEnabled, debugGraphics, st.col)
    /\ threw' = FALSE
    /\ UNCHANGED <<bodies, nextHandle, debugEnabled, eventQueue, queuesCreated,
                   queueFrees, subscribed, worldFreed, ret>>

----------------------------------------------------------------------------
(* destroy *)

\* bodies.find(b => b.gameObject === gameObject): its index, 0 when none
RECURSIVE FindFrom(_, _, _)
FindFrom(list, g, i) ==
    IF i > Len(list) THEN 0
    ELSE IF list[i].gameObject = g THEN i ELSE FindFrom(list, g, i + 1)
\* A faulty variant: the last matching association instead of the first
RECURSIVE FindLastFrom(_, _, _)
FindLastFrom(list, g, i) ==
    IF i < 1 THEN 0
    ELSE IF list[i].gameObject = g THEN i ELSE FindLastFrom(list, g, i - 1)
FindLast(list, g) == FindLastFrom(list, g, Len(list))

Find(list, g) == FindFrom(list, g, 1)

\* bodies.indexOf(body): the first index holding that object, 0 when none
RECURSIVE IndexFrom(_, _, _)
IndexFrom(list, b, i) ==
    IF i > Len(list) THEN 0
    ELSE IF list[i] = b THEN i ELSE IndexFrom(list, b, i + 1)
IndexOf(list, b) == IndexFrom(list, b, 1)

\* bodies.splice(index, 1)
Splice(list, i) == [k \in 1..(Len(list) - 1) |-> IF k < i THEN list[k] ELSE list[k + 1]]

\* world.removeRigidBody(rigidBody): the body and its colliders leave the world
RemoveBody(rbs, h) == Drop(rbs, {h})
RemoveCollidersOf(cols, h) == Drop(cols, {c \in DOMAIN cols : cols[c].parent = h})

\* gameObject.destroy()
DestroyObject(gos, g) == [gos EXCEPT ![g].destroyed = TRUE]

Destroy(gameObject) ==
    LET i == Find(bodies, gameObject)
    IN  /\ i # 0 => worldFreed = 0
        /\ threw' = FALSE
        /\ IF i = 0
           THEN /\ log' = <<Ev("call:destroy", 0, gameObject)>>
                /\ UNCHANGED <<bodies, rigidBodies, colliders, gameObjects>>
           ELSE LET body == bodies[i]
                    index == IndexOf(bodies, body)
                IN  /\ rigidBodies' = RemoveBody(rigidBodies, body.rigidBody)
                    /\ colliders' = RemoveCollidersOf(colliders, body.rigidBody)
                    /\ gameObjects' = DestroyObject(gameObjects, body.gameObject)
                    /\ bodies' = IF index > 0 THEN Splice(bodies, index) ELSE bodies
                    /\ log' = <<Ev("call:destroy", 0, gameObject),
                                Ev("removeRigidBody", body.rigidBody, ""),
                                Ev("gameObject.destroy", 0, body.gameObject),
                                Ev("splice", body.rigidBody, "")>>
        /\ UNCHANGED <<nextHandle, debugEnabled, debugGraphics, eventQueue,
                       queuesCreated, queueFrees, subscribed, worldFreed, ret>>

----------------------------------------------------------------------------
(* debugger, createEventQueue and its release function, free *)

Debugger(enable) ==
    /\ debugEnabled' = enable
    /\ debugGraphics' = IF ~enable THEN {} ELSE debugGraphics
    /\ log' = <<Ev("call:debugger", 0, "")>>
    /\ threw' = FALSE
    /\ UNCHANGED <<bodies, rigidBodies, colliders, nextHandle, gameObjects, eventQueue,
                   queuesCreated, queueFrees, subscribed, worldFreed, ret>>

CreateEventQueue ==
    /\ queuesCreated < MaxQueues
    /\ queuesCreated' = queuesCreated + 1
    /\ eventQueue' = queuesCreated + 1
    /\ queueFrees' = Put(queueFrees, queuesCreated + 1, 0)
    /\ log' = <<Ev("call:createEventQueue", queuesCreated + 1, "")>>
    /\ threw' = FALSE
    /\ UNCHANGED <<bodies, rigidBodies, colliders, nextHandle, gameObjects, debugEnabled,
                   debugGraphics, subscribed, worldFreed, ret>>

\* The `free` closure returned by the k-th createEventQueue call: it reads and
\* writes the adapter's shared eventQueue variable
ReleaseEventQueue(k) ==
    /\ k \in 1..queuesCreated
    /\ IF eventQueue # 0
       THEN /\ queueFrees' = [queueFrees EXCEPT ![eventQueue] = @ + 1]
            /\ eventQueue' = 0
            /\ log' = <<Ev("call:release", k, ""), Ev("eventQueue.free", eventQueue, "")>>
       ELSE /\ log' = <<Ev("call:release", k, "")>>
            /\ UNCHANGED <<queueFrees, eventQueue>>
    /\ threw' = FALSE
    /\ UNCHANGED <<bodies, rigidBodies, colliders, nextHandle, gameObjects, debugEnabled,
                   debugGraphics, queuesCreated, subscribed, worldFreed, ret>>

\* world.free() on a world already released: the engine either raises or
\* releases the instance once more
WorldFreeOutcomes(n) == IF n = 0 THEN {"freed"} ELSE {"throws", "freed"}

\* A faulty variant: the listener stays on the scene's 'update'
FreeKeepsListener ==
    /\ worldFreed < MaxFree
    /\ worldFreed' = worldFreed + 1
    /\ log' = <<Ev("call:free", 0, ""), Ev("world.free", 0, "")>>
    /\ threw' = FALSE
    /\ UNCHANGED <<bodies, rigidBodies, colliders, nextHandle, gameObjects, debugEnabled,
                   debugGraphics, eventQueue, queuesCreated, queueFrees, subscribed, ret>>

Free ==
    /\ worldFreed < MaxFree
    /\ \E o \in WorldFreeOutcomes(worldFreed) :
          IF o = "throws"
          THEN /\ log' = <<Ev("call:free", 0, ""), Ev("world.free", 0, "")>>
               /\ threw' = TRUE
               /\ UNCHANGED <<worldFreed, subscribed>>
          ELSE /\ worldFreed' = worldFreed + 1
               /\ subscribed' = FALSE
               /\ log' = <<Ev("call:free", 0, ""), Ev("world.free", 0, ""),
                           Ev("removeListener", 0, "")>>
               /\ threw' = FALSE
    /\ UNCHANGED <<bodies, rigidBodies, colliders, nextHandle, gameObjects, debugEnabled,
                   debugGraphics, eventQueue, queuesCreated, queueFrees, ret>>

----------------------------------------------------------------------------
(* The scene's own code moving a display object between frames *)

SetTransform(g, pose) ==
    /\ ~gameObjects[g].destroyed
    /\ gameObjects' = [gameObjects EXCEPT ![g].x = pose[1], ![g].y = pose[2],
                                          ![g].rotation = pose[3]]
    /\ log' = <<Ev("scene:setTransform", 0, g)>>
    /\ threw' = FALSE
    /\ UNCHANGED <<bodies, rigidBodies, colliders, nextHandle, debugEnabled,
                   debugGraphics, eventQueue, queuesCreated, queueFrees, subscribed,
                   worldFreed, ret>>

----------------------------------------------------------------------------
(* createRapierPhysics: the state after construction *)

Init ==
    /\ bodies = <<>>
    /\ rigidBodies = [h \in {} |-> 0]
    /\ colliders = [h \in {} |-> 0]
    /\ nextHandle = 1
    /\ gameObjects \in [GameObjectNames ->
                          [x : {0}, y : {0}, rotation : {0}, destroyed : {FALSE}]]
    /\ debugEnabled = FALSE
    /\ debugGraphics = {}
    /\ eventQueue = 0
    /\ queuesCreated = 0
    /\ queueFrees = [q \in {} |-> 0]
    /\ subscribed = TRUE
    /\ worldFreed = 0
    /\ ret = NoRet
    /\ threw = FALSE
    /\ log = <<>>
    /\ calls = 0

\* The public operations and the scene's frame, with their inputs
\* (the scene hands addRigidBody display objects it has not destroyed)
LiveObjects == {g \in GameObjectNames : ~gameObjects[g].destroyed}
Counted == calls' = Min(calls + 1, MaxCalls)
Attach(Types, Colliders, Flags) ==
    /\ Counted
    /\ \E g \in LiveObjects, t \in Types, c \in Colliders, p \in Flags :
          AddRigidBody(g, t, c, p)
Frame == Counted /\ \E d \in [DOMAIN rigidBodies -> Deltas] : Update(d)
Detach == Counted /\ \E g \in GameObjectNames : Destroy(g)
SetDebug == Counted /\ \E e \in BOOLEAN : Debugger(e)
NewQueue == Counted /\ CreateEventQueue
Release == Counted /\ \E k \in 1..MaxQueues : ReleaseEventQueue(k)
Teardown == Counted /\ Free
Move == Counted /\ \E g \in GameObjectNames, pose \in Poses : SetTransform(g, pose)

Next ==
    \/ Attach(RigidBodyTypeInputs, ColliderInputs, BOOLEAN)
    \/ Frame
    \/ Detach
    \/ SetDebug
    \/ NewQueue
    \/ Release
    \/ Teardown
    \/ Move

Spec == Init /\ [][Next]_vars

\* The association list: attach and detach of default bodies with a usable or
\* an unusable shape, under a changing debug flag and event queue
NextList ==
    \/ Attach({"Dynamic"}, {"undefined", "TriMesh"}, {FALSE})
    \/ Detach
    \/ SetDebug
    \/ NewQueue

SpecList == Init /\ [][NextList]_vars

\* The frame loop: every body kind and both mirroring flags, default shape
SyncBodies == 2

NextSync ==
    \/ (calls < MaxCalls /\ nextHandle <= SyncBodies
          /\ Attach(RigidBodyTypeInputs, {"undefined"}, BOOLEAN))
    \/ (calls < MaxCalls /\ Frame)
    \/ (calls < MaxCalls /\ Detach)
    \/ (calls < MaxCalls /\ Move)

SpecSync == Init /\ [][NextSync]_vars

\* The shape selection: every collider input on a Dynamic body
NextShapes ==
    \/ (nextHandle <= SyncBodies /\ Attach({"Dynamic"}, ColliderInputs, {FALSE}))
    \/ Frame
    \/ Move

SpecShapes == Init /\ [][NextShapes]_vars

\* The debug surface: attach, frames and detach under a changing debug flag
NextDebug ==
    \/ (nextHandle <= SyncBodies /\ Attach({"Dynamic"}, {"undefined"}, {FALSE}))
    \/ Frame
    \/ Detach
    \/ SetDebug

SpecDebug == Init /\ [][NextDebug]_vars

\* The event queue: creations and releases in any interleaving, between frames
\* of one Dynamic body
NextQueue ==
    \/ (nextHandle <= 1 /\ Attach({"Dynamic"}, {"undefined"}, {FALSE}))
    \/ Frame
    \/ NewQueue
    \/ Release

SpecQueue == Init /\ [][NextQueue]_vars

\* Teardown: free(), once or repeatedly, among attaches, frames and the
\* scene's own moves
NextLife ==
    \/ (nextHandle <= SyncBodies /\ Attach({"Dynamic"}, {"undefined"}, {FALSE}))
    \/ Frame
    \/ Move
    \/ Teardown

SpecLife == Init /\ [][NextLife]_vars

----------------------------------------------------------------------------
(* Reading the log of the last handler *)

Called(name) == Len(log) > 0 /\ log[1].ev = name
CalledNext(name) == Len(log') > 0 /\ log'[1].ev = name
Logged(l, name, h) == \E k \in 1..Len(l) : l[k].ev = name /\ l[k].h = h
Mentions(l, h) == \E k \in 2..Len(l) : l[k].h = h

\* Indices of the associations of display object g
IndicesOf(list, g) == {k \in 1..Len(list) : list[k].gameObject = g}
FirstOf(list, g) == CHOOSE i \in IndicesOf(list, g) : \A k \in IndicesOf(list, g) : i <= k

----------------------------------------------------------------------------
(* C1: detach is idempotent.  destroy(g) on a display object that an earlier
   destroy(g) already destroyed, or that has no association, raises no
   error, removes no rigid body and no collider, destroys nothing and leaves
   the association list exactly as it was. *)
C1_DetachIdempotent ==
    [][\A g \in GameObjectNames :
         (CalledNext("call:destroy") /\ log'[1].g = g
            /\ (gameObjects[g].destroyed \/ IndicesOf(bodies, g) = {}))
         => /\ ~threw'
            /\ UNCHANGED <<bodies, rigidBodies, colliders, gameObjects>>]_vars

----------------------------------------------------------------------------
(* C2: when destroy(g) finds an association for g it removes the body of the
   first matching association from the world, then destroys g, then removes
   that one association from the list, in this order; every other
   association, every other body and display object, the debug flag and the
   event-queue handle are unchanged. *)
C2_DetachEffects ==
    [][\A g \in GameObjectNames :
         (CalledNext("call:destroy") /\ log'[1].g = g /\ IndicesOf(bodies, g) # {})
         => LET i == FirstOf(bodies, g)
                h == bodies[i].rigidBody
            IN  /\ log' = <<Ev("call:destroy", 0, g),
                            Ev("removeRigidBody", h, ""),
                            Ev("gameObject.destroy", 0, g),
                            Ev("splice", h, "")>>
                /\ DOMAIN rigidBodies' = (DOMAIN rigidBodies) \ {h}
                /\ DOMAIN colliders' = (DOMAIN colliders) \ {bodies[i].collider}
                /\ \A k \in DOMAIN rigidBodies' : rigidBodies'[k] = rigidBodies[k]
                /\ \A k \in DOMAIN colliders' : colliders'[k] = colliders[k]
                /\ gameObjects' = [gameObjects EXCEPT ![g].destroyed = TRUE]
                /\ Len(bodies') = Len(bodies) - 1
                /\ \A k \in 1..Len(bodies') :
                       bodies'[k] = IF k < i THEN bodies[k] ELSE bodies[k + 1]
                /\ UNCHANGED <<debugEnabled, eventQueue>>]_vars

\* A detach of a display object attached three times, two of its associations
\* staying behind, with the debug flag set and an event queue active
C2_Witness ==
    /\ Called("call:destroy")
    /\ Len(log) = 4
    /\ Len(bodies) = 2
    /\ IndicesOf(bodies, log[1].g) # {}
    /\ debugEnabled
    /\ eventQueue # 0

----------------------------------------------------------------------------
(* The frame loop seen from outside: what an update step did to association i *)

Transform(r) == <<r.x, r.y, r.rotation>>
KinematicTarget(r) == <<r.nextX, r.nextY, r.nextRotation>>

KindAt(i) == rigidBodies[bodies[i].rigidBody].bodyType
Mirrored(i) == bodies[i].phaserTransformations

\* Association k copies its body onto its display object: neither Fixed nor mirrored
EngineDrives(k) == KindAt(k) # "Fixed" /\ ~Mirrored(k)

\* The body of association i is, after the step, what the tick alone made of it
AsTicked(i) ==
    LET h == bodies[i].rigidBody
    IN  \E d \in Deltas : rigidBodies'[h] = StepBody(rigidBodies[h], d)

\* The collider of association i follows its body, as the tick leaves it
ColliderAsTicked(i) ==
    colliders'[bodies[i].collider].rotation = rigidBodies'[bodies[i].rigidBody].rotation

\* No association of the same display object copies a body onto it
NoOtherDriver(i) ==
    \A k \in 1..Len(bodies) :
        (k # i /\ bodies[k].gameObject = bodies[i].gameObject) => ~EngineDrives(k)

DisplayUnchanged(i) ==
    gameObjects'[bodies[i].gameObject] = gameObjects[bodies[i].gameObject]

----------------------------------------------------------------------------
(* C3: mirroring requested for a body that is not KinematicPositionBased
   makes the association engine-driven: every update step leaves the body
   as the tick set it and, unless the body is Fixed, copies the body's
   position and rotation onto the display object. *)
C3_MirrorFallsBackToEngine ==
    [][CalledNext("call:update") =>
         \A i \in 1..Len(bodies) :
            (Mirrored(i) /\ KindAt(i) \notin {"KinematicPositionBased", "Fixed"})
            => /\ AsTicked(i)
               /\ Logged(log', "copyToDisplay", bodies[i].rigidBody)]_vars

----------------------------------------------------------------------------
(* C4 as stated: in every update step, every association with mirroring set
   and a body that is not KinematicPositionBased gets a diagnostic, and the
   copy phase writes nothing for it (body, kinematic target, collider,
   display object); the loop goes on to the remaining associations. *)
C4_MisuseDiagnosedEveryKind ==
    [][CalledNext("call:update") =>
         \A i \in 1..Len(bodies) :
            (Mirrored(i) /\ KindAt(i) # "KinematicPositionBased")
            => /\ Logged(log', "console.error:transformations", bodies[i].rigidBody)
               /\ ~Logged(log', "copyToDisplay", bodies[i].rigidBody)
               /\ ~Logged(log', "mirror", bodies[i].rigidBody)
               /\ AsTicked(i)
               /\ ColliderAsTicked(i)]_vars

(* C4 amended: the diagnostic is reported for every mirrored association
   whose body is neither KinematicPositionBased nor Fixed; a mirrored Fixed
   association is skipped without a diagnostic.  In both cases the copy phase
   writes nothing for the association: its body is as the tick left it, its
   collider follows the body, nothing is copied to or from its display
   object (which stays as it was unless another association drives it), and
   every other association that is not Fixed is still visited. *)
C4_MisuseDiagnosed ==
    [][CalledNext("call:update") =>
         \A i \in 1..Len(bodies) :
            (Mirrored(i) /\ KindAt(i) # "KinematicPositionBased")
            => /\ (Logged(log', "console.error:transformations", bodies[i].rigidBody)
                       <=> KindAt(i) # "Fixed")
               /\ ~Logged(log', "copyToDisplay", bodies[i].rigidBody)
               /\ ~Logged(log', "mirror", bodies[i].rigidBody)
               /\ AsTicked(i)
               /\ ColliderAsTicked(i)
               /\ (NoOtherDriver(i) => DisplayUnchanged(i))
               /\ \A k \in 1..Len(bodies) :
                      KindAt(k) # "Fixed" => Mentions(log', bodies[k].rigidBody)]_vars

\* An update that reported the misuse for a Dynamic body whose display object
\* the scene had moved away from it, and then visited another association
C4_Witness ==
    /\ Called("call:update")
    /\ \E k \in 1..(Len(log) - 1) :
          /\ log[k].ev = "console.error:transformations"
          /\ rigidBodies[log[k].h].bodyType = "Dynamic"
          /\ gameObjects[log[k].g].x # rigidBodies[log[k].h].x

----------------------------------------------------------------------------
(* C5 as stated: for an association whose body is Fixed, no update step
   changes the display object's position or rotation, whatever the
   mirroring flag. *)
C5_FixedDisplayNeverMoves ==
    [][CalledNext("call:update") =>
         \A i \in 1..Len(bodies) : KindAt(i) = "Fixed" => DisplayUnchanged(i)]_vars

(* C5 amended: an association whose body is Fixed is skipped entirely by
   every update step, whatever its mirroring flag: nothing is logged for it,
   its body and collider are unchanged, and its display object keeps its
   position and rotation unless another association of the same display
   object copies its own body onto it. *)
C5_FixedSkipped ==
    [][CalledNext("call:update") =>
         \A i \in 1..Len(bodies) :
            KindAt(i) = "Fixed"
            => /\ ~Mentions(log', bodies[i].rigidBody)
               /\ rigidBodies'[bodies[i].rigidBody] = rigidBodies[bodies[i].rigidBody]
               /\ colliders'[bodies[i].collider] = colliders[bodies[i].collider]
               /\ (NoOtherDriver(i) => DisplayUnchanged(i))]_vars

\* After an update, a Fixed body without mirroring and a Fixed body with it,
\* each on a display object that the scene had moved away from the body
C5_Witness ==
    /\ Called("call:update")
    /\ \E i, j \in 1..Len(bodies) :
          /\ rigidBodies[bodies[i].rigidBody].bodyType = "Fixed"
          /\ rigidBodies[bodies[j].rigidBody].bodyType = "Fixed"
          /\ bodies[i].phaserTransformations /\ ~bodies[j].phaserTransformations
          /\ Transform(gameObjects[bodies[i].gameObject])
                # Transform(rigidBodies[bodies[i].rigidBody])
          /\ Transform(gameObjects[bodies[j].gameObject])
                # Transform(rigidBodies[bodies[j].rigidBody])

----------------------------------------------------------------------------
(* C6 as stated: at the end of every update step, for every association whose
   body is not Fixed and whose mirroring flag is unset, the display object's
   x, y and rotation equal the body's, as the step's one tick produced them;
   the tick comes before the copy. *)
StepCount(l) == Cardinality({k \in 1..Len(l) : l[k].ev \in {"step", "step:eventQueue"}})

C6_DisplayFollowsEveryBody ==
    [][CalledNext("call:update") =>
         /\ StepCount(log') = 1 /\ log'[2].ev \in {"step", "step:eventQueue"}
         /\ \A i \in 1..Len(bodies) :
               EngineDrives(i)
               => /\ AsTicked(i)
                  /\ Transform(gameObjects'[bodies[i].gameObject])
                        = Transform(rigidBodies'[bodies[i].rigidBody])]_vars

\* Association i is the last in list order to copy a body onto its display object
LastDriver(i) ==
    /\ EngineDrives(i)
    /\ \A k \in (i + 1)..Len(bodies) :
          bodies[k].gameObject = bodies[i].gameObject => ~EngineDrives(k)

(* C6 amended: every update step ticks the world exactly once, before the
   copy, and copies the ticked body of every association that is not Fixed
   and not mirrored onto its display object; at the end of the step the
   display object's x, y and rotation equal those of the body of the last
   such association of that display object in list order. *)
C6_DisplayFollowsLastBody ==
    [][CalledNext("call:update") =>
         /\ StepCount(log') = 1 /\ log'[2].ev \in {"step", "step:eventQueue"}
         /\ \A i \in 1..Len(bodies) :
               EngineDrives(i)
               => /\ AsTicked(i)
                  /\ Logged(log', "copyToDisplay", bodies[i].rigidBody)
                  /\ (LastDriver(i)
                        => Transform(gameObjects'[bodies[i].gameObject])
                              = Transform(rigidBodies'[bodies[i].rigidBody]))]_vars

\* After an update, a body the tick has moved and turned, its display object
\* following it, beside a second association
C6_Witness ==
    /\ Called("call:update")
    /\ Len(bodies) = 2
    /\ \E i \in 1..Len(bodies) :
          /\ Logged(log, "copyToDisplay", bodies[i].rigidBody)
          /\ rigidBodies[bodies[i].rigidBody].y = MaxCoord
          /\ rigidBodies[bodies[i].rigidBody].rotation = 1
          /\ Transform(gameObjects[bodies[i].gameObject])
                = Transform(rigidBodies[bodies[i].rigidBody])

----------------------------------------------------------------------------
(* C7 as stated: for an association with mirroring set and a
   KinematicPositionBased body, every update step sets the body's next
   kinematic translation and rotation from the display object's position
   and rotation, sets the collider's rotation to the display rotation, and
   never writes the display object's position or rotation. *)
MirrorTarget(g, t) == <<t[1] - (displayWidth(g) * (originX2(g) - 1)) \div 2, t[2], t[3]>>

C7_DisplayDrivesBody ==
    [][CalledNext("call:update") =>
         \A i \in 1..Len(bodies) :
            (Mirrored(i) /\ KindAt(i) = "KinematicPositionBased")
            => LET g == bodies[i].gameObject
                   h == bodies[i].rigidBody
               IN  /\ KinematicTarget(rigidBodies'[h])
                         = MirrorTarget(g, Transform(gameObjects'[g]))
                   /\ colliders'[bodies[i].collider].rotation = gameObjects'[g].rotation
                   /\ DisplayUnchanged(i)]_vars

\* The display object's transform when association i is visited: what the
\* last earlier association driving the same display object copied onto it,
\* or what it was before the step
AtVisit(i) ==
    LET W == {k \in 1..(i - 1) :
                 bodies[k].gameObject = bodies[i].gameObject /\ EngineDrives(k)}
    IN  IF W = {} THEN Transform(gameObjects[bodies[i].gameObject])
        ELSE LET m == CHOOSE k \in W : \A j \in W : j <= k
             IN  Transform(rigidBodies'[bodies[m].rigidBody])

(* C7 amended: for an association with mirroring set and a
   KinematicPositionBased body, every update step sets the body's next
   kinematic translation and rotation from the display object's position
   (shifted by the horizontal origin) and rotation as they are when the
   association is visited, and sets the collider's rotation to that display
   rotation; the visit copies
   nothing onto the display object, which keeps its position and rotation
   through the step unless another association of the same display object
   copies its own body onto it. *)
C7_DisplayDrivesBodyAtVisit ==
    [][CalledNext("call:update") =>
         \A i \in 1..Len(bodies) :
            (Mirrored(i) /\ KindAt(i) = "KinematicPositionBased")
            => LET g == bodies[i].gameObject
                   h == bodies[i].rigidBody
               IN  /\ KinematicTarget(rigidBodies'[h]) = MirrorTarget(g, AtVisit(i))
                   /\ colliders'[bodies[i].collider].rotation = AtVisit(i)[3]
                   /\ Logged(log', "mirror", h)
                   /\ ~Logged(log', "copyToDisplay", h)
                   /\ (NoOtherDriver(i) => DisplayUnchanged(i))]_vars

\* After an update, a mirrored KinematicPositionBased body of the display
\* object with a left origin, which the scene had moved: the body's target is
\* the moved position shifted by half the width, the body not yet there
C7_Witness ==
    /\ Called("call:update")
    /\ \E i \in 1..Len(bodies) :
          LET g == bodies[i].gameObject
              rb == rigidBodies[bodies[i].rigidBody]
          IN  /\ Logged(log, "mirror", bodies[i].rigidBody)
              /\ originX2(g) = 0
              /\ Transform(gameObjects[g]) = <<1, 1, 1>>
              /\ KinematicTarget(rb) = <<3, 1, 1>>
              /\ Transform(rb) # KinematicTarget(rb)

----------------------------------------------------------------------------
(* C8: every addRigidBody call creates exactly one new body and one new
   collider in the world and puts exactly one new association at the front
   of the list, the earlier entries keeping their order (so the list runs
   from the latest attachment to the earliest); the returned record holds
   the body, collider and display object of that association. *)
C8_AttachPrepends ==
    [][CalledNext("call:addRigidBody") =>
         LET h == log'[1].h
             g == log'[1].g
         IN  /\ ~threw'
             /\ h \notin DOMAIN rigidBodies
             /\ DOMAIN rigidBodies' = (DOMAIN rigidBodies) \cup {h}
             /\ Cardinality(DOMAIN colliders') = Cardinality(DOMAIN colliders) + 1
             /\ Len(bodies') = Len(bodies) + 1
             /\ bodies' = <<bodies'[1]>> \o bodies
             /\ bodies'[1].rigidBody = h /\ bodies'[1].gameObject = g
             /\ bodies'[1].collider \in (DOMAIN colliders') \ (DOMAIN colliders)
             /\ colliders'[bodies'[1].collider].parent = h
             /\ ret' = [rigidBody |-> h, collider |-> bodies'[1].collider,
                        gameObject |-> g]
             /\ \A k \in 1..(Len(bodies') - 1) :
                    bodies'[k].rigidBody > bodies'[k + 1].rigidBody]_vars

----------------------------------------------------------------------------
(* C9: for every display object and every body kind, the body addRigidBody
   creates has, when the call ends, the display object's (x, y) as its
   translation and the display object's rotation as its rotation; its kind
   is the requested one, and Dynamic when the kind is omitted or not one of
   the four. *)
C9_BodyStartsAtDisplay ==
    Called("call:addRigidBody") =>
        LET h == log[1].h
            g == log[1].g
            t == log[2].g
        IN  /\ h \in DOMAIN rigidBodies
            /\ Transform(rigidBodies[h]) = Transform(gameObjects[g])
            /\ rigidBodies[h].bodyType = (IF t \in RigidBodyTypes THEN t ELSE "Dynamic")
            /\ rigidBodies[h].userData = g

\* An attach with a kind outside the enum, of a display object that the scene
\* had moved and turned away from its initial transform
C9_Witness ==
    /\ Called("call:addRigidBody")
    /\ log[2].g = "unrecognized"
    /\ rigidBodies[log[1].h].bodyType = "Dynamic"
    /\ Transform(rigidBodies[log[1].h]) = <<1, 1, 1>>

----------------------------------------------------------------------------
(* C10: addRigidBody with a shape kind that has no built-in constructor
   (TriMesh, HalfSpace, Segment, ConvexPolygon, RoundConvexPolygon) never
   throws: it reports a diagnostic and still creates the body, a collider
   and the association. *)
C10_UnimplementedShapeNeverThrows ==
    (Called("call:addRigidBody") /\ log[3].g \in UnimplementedShapes) =>
        /\ Logged(log, "console.error:shape not implemented", 0)
        /\ ~threw
        /\ log[1].h \in DOMAIN rigidBodies
        /\ Len(bodies) > 0
        /\ bodies[1].rigidBody = log[1].h
        /\ bodies[1].collider \in DOMAIN colliders

----------------------------------------------------------------------------
(* C11: whenever the debug flag is disabled the debug surface holds no
   segment.  debugger(false) leaves the surface empty at once, and a frame
   draws only while the flag is enabled: it then leaves on the surface the
   outlines of the colliders the world holds in that frame and nothing
   older. *)
C11_DebugSurfaceEmptyWhenDisabled ==
    /\ [](~debugEnabled => debugGraphics = {})
    /\ [][/\ (CalledNext("call:debugger") /\ ~debugEnabled') => debugGraphics' = {}
          /\ CalledNext("call:update") =>
                debugGraphics' = (IF debugEnabled THEN DOMAIN colliders' ELSE {})]_vars

\* A frame that ran with the flag disabled over a world holding colliders
C11_Witness ==
    /\ Called("call:update")
    /\ ~debugEnabled
    /\ DOMAIN colliders # {}
    /\ debugGraphics = {}

----------------------------------------------------------------------------
(* C12: at most one event queue is active.  The queue the adapter holds is
   the one created last, as long as it has not been freed, and no queue
   otherwise: createEventQueue puts its new queue in the place of the one
   held before, and a frame steps the world with the active queue and drains
   it exactly when there is one, and steps without a queue when there is
   none. *)
ActiveQueue ==
    IF queuesCreated > 0 /\ queueFrees[queuesCreated] = 0 THEN queuesCreated ELSE 0

IsStepEv(e) == e.ev \in {"step", "step:eventQueue", "drainCollisionEvents"}

C12_OneActiveQueue ==
    /\ [](eventQueue = ActiveQueue)
    /\ [][/\ CalledNext("call:createEventQueue") =>
                (eventQueue' = queuesCreated + 1 /\ eventQueue' # eventQueue)
          /\ CalledNext("call:update") =>
                SelectSeq(log', IsStepEv) =
                    (IF ActiveQueue # 0
                     THEN <<Ev("step:eventQueue", ActiveQueue, ""),
                            Ev("drainCollisionEvents", ActiveQueue, "")>>
                     ELSE <<Ev("step", 0, "")>>)]_vars

\* A frame that stepped with the second queue, created in the place of a first
\* one that was never freed
C12_Witness ==
    /\ Called("call:update")
    /\ queuesCreated = 2
    /\ queueFrees[1] = 0
    /\ Logged(log, "step:eventQueue", 2)
    /\ Logged(log, "drainCollisionEvents", 2)

----------------------------------------------------------------------------
(* C13: update listens to the scene's 'update' from construction, is never
   subscribed again, and free() releases the world and removes the listener:
   once the world is released no frame runs update, so none steps the world
   or writes a display object or a body.  free() itself destroys no display
   object and removes no body, no collider and no association. *)
C13_FreeUnsubscribes ==
    /\ [](subscribed <=> worldFreed = 0)
    /\ [][/\ subscribed' => subscribed
          /\ CalledNext("call:free") =>
                /\ UNCHANGED <<bodies, rigidBodies, colliders, gameObjects>>
                /\ worldFreed = 0 =>
                      /\ worldFreed' = 1
                      /\ log' = <<Ev("call:free", 0, ""), Ev("world.free", 0, ""),
                                  Ev("removeListener", 0, "")>>
          /\ worldFreed > 0 => ~CalledNext("call:update")]_vars

\* free() on an adapter holding two associations whose bodies frames have moved
C13_Witness ==
    /\ Called("call:free")
    /\ ~threw
    /\ worldFreed = 1
    /\ Len(bodies) = 2
    /\ \A i \in 1..Len(bodies) :
           /\ rigidBodies[bodies[i].rigidBody].y = 1
           /\ gameObjects[bodies[i].gameObject].y = 1
           /\ ~gameObjects[bodies[i].gameObject].destroyed

----------------------------------------------------------------------------
(* C14: the world is created once and released at most once: no sequence of
   operations, repeated free() calls included, releases the same world a
   second time. *)
C14_WorldFreedAtMostOnce == worldFreed <= 1

----------------------------------------------------------------------------
(* C15: every association in the list references a display object that is
   not destroyed and a rigid body that is in the world; no body created for
   a destroyed display object is left in the world, and a frame copies no
   transform onto a destroyed display object. *)
C15_AssociationsAlive ==
    /\ \A i \in 1..Len(bodies) :
           /\ ~gameObjects[bodies[i].gameObject].destroyed
           /\ bodies[i].rigidBody \in DOMAIN rigidBodies
    /\ \A h \in DOMAIN rigidBodies : ~gameObjects[rigidBodies[h].userData].destroyed
    /\ Called("call:update") =>
           \A k \in 1..Len(log) :
               log[k].ev = "copyToDisplay" => ~gameObjects[log[k].g].destroyed

----------------------------------------------------------------------------
(* C16: the release function returned by a createEventQueue call frees the
   queue of that call and no other, once at most; no queue the adapter
   created is left both unfreed and out of the adapter's reach; and the
   queue a frame steps with is never a freed one. *)
C16_ReleaseFreesOwnQueue ==
    /\ [](\A q \in DOMAIN queueFrees :
            /\ queueFrees[q] <= 1
            /\ queueFrees[q] = 0 => q = eventQueue)
    /\ [](eventQueue # 0 => queueFrees[eventQueue] = 0)
    /\ [][CalledNext("call:release") =>
            LET k == log'[1].h
            IN  /\ queueFrees[k] = 0 => queueFrees'[k] = 1
                /\ \A q \in DOMAIN queueFrees :
                       queueFrees'[q] # queueFrees[q] => q = k]_vars

====
